---- MODULE Spec2Model ----
(***************************************************************************)
(* Webhook ingestion and agent dispatch layer of CODE_ALCHEMY:             *)
(*   SecurityManager  (src/web/n8n_integration/security_manager.py)        *)
(*   WebhookHandler   (src/web/n8n_integration/webhook_handler.py)         *)
(*   AgentManager     (src/agents/agent_manager.py)                        *)
(*   BaseAgent        (src/agents/base/agent_interface.py)                 *)
(*   N8NIntegrationAPI (src/web/n8n_integration/api.py), the endpoints     *)
(*                                                                         *)
(* Every method without an internal suspension point is one atomic action  *)
(* (the event loop never interleaves it with anything else).               *)
(***************************************************************************)
EXTENDS Integers, Sequences, FiniteSets, TLC

VARIABLES
    clock,                  \* elapsed real time, in abstract ticks
    api_keys,               \* SecurityManager.api_keys: key name -> key value
    request_counts,         \* SecurityManager.request_counts: key -> list of request times
    rl_log,                 \* history variable: every check_rate_limit call and its outcome
    webhooks,               \* the webhook dicts, by object identity (1 = first submitted)
    webhook_history,        \* WebhookHandler.webhook_history: list of references
    processing_queue,       \* WebhookHandler.processing_queue: FIFO of references
    _background_task,       \* WebhookHandler._background_task: "None" or "task"
    consumers,              \* the _process_webhook_queue tasks ever created: where each one is
    agents,                 \* AgentManager.agents: name -> agent object fields
    agent_status_history,   \* AgentManager.agent_status_history
    hist_appended,          \* history variable: entries ever appended to agent_status_history
    requests,               \* the trigger requests received, in order of arrival: where each one is
    dispatched,             \* history variable: per agent, the dispatches whose execute was called and returned
    ret                     \* history variable: the last call, its arguments and what it returned or raised

vars == <<clock, api_keys, request_counts, rl_log, webhooks, webhook_history,
          processing_queue, _background_task, consumers,
          agents, agent_status_history, hist_appended,
          requests, dispatched, ret>>

securityVars == <<api_keys, request_counts, rl_log>>
webhookVars  == <<webhooks, webhook_history, processing_queue,
                  _background_task, consumers>>
agentVars    == <<agents, agent_status_history, hist_appended>>
requestVars  == <<requests, dispatched>>

Range(f) == {f[x] : x \in DOMAIN f}

(***************************************************************************)
(* Bounds of the model.  The three limits of the program (100 requests per *)
(* 60 seconds, histories of 1000 entries) are parameters of the algorithms *)
(* and are checked at small values, so that reaching and passing them is   *)
(* within reach of exhaustive search.                                      *)
(***************************************************************************)
rate_limit_window == 2          \* security_manager.py:28 sets 60 (seconds)
rate_limit_requests == 2        \* security_manager.py:29 sets 100
WebhookHandler_max_history == 2 \* webhook_handler.py:22 sets 1000
AgentManager_max_history == 2   \* agent_manager.py:22 sets 1000
MaxClock == 3                   \* Tick is disabled from this time on
MaxCalls == 4                   \* check_rate_limit calls recorded in rl_log
ClockResolution == 2            \* ticks per step of the clock behind datetime.now()
MaxWebhooks == WebhookHandler_max_history + 2
MaxExec == AgentManager_max_history + 1
MaxConsumers == 2               \* consumer tasks the model lets exist

(***************************************************************************)
(* Clock.  time.time() is read at tick resolution; datetime.now() advances *)
(* once every ClockResolution ticks (microsecond fields, and an operating  *)
(* system clock that is coarser than the duration of a call).              *)
(***************************************************************************)
time_time == clock

datetime_now == clock \div ClockResolution

Tick ==
    /\ clock < MaxClock
    /\ clock' = clock + 1
    /\ UNCHANGED <<requestVars, securityVars, webhookVars, agentVars, ret>>

(***************************************************************************)
(* SecurityManager                                                         *)
(***************************************************************************)
KeyOrder == <<"n8n_main", "n8n_monitoring", "n8n_automation">>

SecurityManager_api_keys ==
    [n8n_main       |-> "sk_codealchemy_n8n_2025",
     n8n_monitoring |-> "sk_codealchemy_monitor_2025",
     n8n_automation |-> "sk_codealchemy_auto_2025"]

\* The new key stored as it is given
sha256_hexdigest_plain(s) == s

\* hashlib.sha256(s.encode()).hexdigest(): a digest is never its own input,
\* and distinct inputs of the model have distinct digests.
sha256_hexdigest(s) == "sha256(" \o s \o ")"

NewKeys == {"sk_rotated"}

KeyNameArgs == {"n8n_main", "n8n_monitoring", "no_such_key"}

Tokens ==
    Range(SecurityManager_api_keys)
        \cup {"sk_invalid", ""}
        \cup NewKeys
        \cup {sha256_hexdigest(k) : k \in NewKeys}

Payloads == {"{}", "{\"severity\": \"high\"}"}

RateKeys == {"n8n_main", "n8n_monitoring"}

\* next(name for name, key in self.api_keys.items() if key == api_key)
FirstKeyName(api_key) ==
    LET hits == {i \in 1..Len(KeyOrder) : api_keys[KeyOrder[i]] = api_key}
    IN  KeyOrder[CHOOSE i \in hits : \A j \in hits : i <= j]

validate_api_key_keys(api_key) ==
    IF api_key \notin DOMAIN api_keys
    THEN [raised |-> TRUE, status_code |-> 401, value |-> ""]
    ELSE [raised |-> FALSE, status_code |-> 0, value |-> api_key]

validate_api_key(api_key) ==
    IF api_key \notin Range(api_keys)
    THEN [raised |-> TRUE, status_code |-> 401, value |-> ""]
    ELSE [raised |-> FALSE, status_code |-> 0, value |-> FirstKeyName(api_key)]

\* get_api_key_from_header: the dependency of every endpoint; the request
\* body (payload) is parsed next to it and is not passed to the validation.
ValidateApiKey(token, payload) ==
    /\ ret' = [op |-> "validate_api_key", token |-> token, payload |-> payload,
               result |-> validate_api_key(token)]
    /\ UNCHANGED <<requestVars, clock, securityVars, webhookVars, agentVars>>

LimitExceededOffByOne(times) == Len(times) > rate_limit_requests

Prune(times, current_time) ==
    SelectSeq(times, LAMBDA req_time : current_time - req_time < rate_limit_window)

LimitExceeded(times) == Len(times) >= rate_limit_requests

\* check_rate_limit that records the request before it decides
check_rate_limit_counting_rejected(api_key) ==
    LET current_time == time_time
        counts0 == IF api_key \in DOMAIN request_counts
                   THEN request_counts
                   ELSE (api_key :> <<>>) @@ request_counts
        kept    == Prune(counts0[api_key], current_time)
    IN  [raised |-> LimitExceeded(kept),
         status_code |-> IF LimitExceeded(kept) THEN 429 ELSE 0,
         request_counts |-> [counts0 EXCEPT ![api_key] = Append(kept, current_time)]]

check_rate_limit(api_key) ==
    LET current_time == time_time
        counts0 == IF api_key \in DOMAIN request_counts
                   THEN request_counts
                   ELSE (api_key :> <<>>) @@ request_counts
        kept    == Prune(counts0[api_key], current_time)
    IN  IF LimitExceeded(kept)
        THEN [raised |-> TRUE, status_code |-> 429,
              request_counts |-> [counts0 EXCEPT ![api_key] = kept]]
        ELSE [raised |-> FALSE, status_code |-> 0,
              request_counts |-> [counts0 EXCEPT ![api_key] = Append(kept, current_time)]]

CheckRateLimit(api_key) ==
    /\ Len(rl_log) < MaxCalls
    /\ LET r == check_rate_limit(api_key)
       IN  /\ request_counts' = r.request_counts
           /\ rl_log' = Append(rl_log, [key |-> api_key, t |-> time_time, ok |-> ~r.raised])
           /\ ret' = [op |-> "check_rate_limit", api_key |-> api_key,
                      result |-> [raised |-> r.raised, status_code |-> r.status_code]]
    /\ UNCHANGED <<requestVars, clock, api_keys, webhookVars, agentVars>>

RotateApiKey(key_name, new_key) ==
    /\ IF key_name \notin DOMAIN api_keys
       THEN /\ ret' = [op |-> "rotate_api_key", key_name |-> key_name,
                       new_key |-> new_key, result |-> FALSE]
            /\ UNCHANGED api_keys
       ELSE /\ api_keys' = [api_keys EXCEPT ![key_name] = sha256_hexdigest(new_key)]
            /\ ret' = [op |-> "rotate_api_key", key_name |-> key_name,
                       new_key |-> new_key, result |-> TRUE]
    /\ UNCHANGED <<requestVars, clock, request_counts, rl_log, webhookVars, agentVars>>

(***************************************************************************)
(* WebhookHandler.  A webhook dict is one object shared by the history and *)
(* the queue: both hold references into webhooks.                          *)
(***************************************************************************)
WebhookTypes == {"system_alert", "productivity"}

\* The "severity" key of a webhook dict: absent, or a value that is not a
\* string (JSON number or null).
Severities == {"absent", "non-string"}

\* The dicts handed to process_webhook.  severity is read by the
\* system_alert handler only.
WebhookDicts ==
    {[type |-> "system_alert", severity |-> "absent"],
     [type |-> "system_alert", severity |-> "non-string"],
     [type |-> "productivity", severity |-> "absent"]}

\* The dicts the HTTP endpoints build: {"type": .., "data": data, "source":
\* "n8n"}; the request body sits under "data", so no "severity" key.
ApiWebhookDicts == {d \in WebhookDicts : d.severity = "absent"}

\* The result of a record the dispatcher has not handled yet
NoResult == [status |-> "", message |-> ""]

\* datetime.now().strftime("%Y%m%d_%H%M%S_%f"): one string per clock reading
_generate_webhook_id == "webhook_" \o ToString(datetime_now)

\* The put left out
queue_put_dropped(ref) == processing_queue

\* await self.processing_queue.put(webhook_data): the queue is unbounded,
\* put never waits.
queue_put(ref) == Append(processing_queue, ref)

\* self.webhook_history.append(..) without the eviction
append_to_webhook_history_unbounded(ref) == Append(webhook_history, ref)

\* self.webhook_history.append(..); pop(0) when longer than max_history
append_to_webhook_history(ref) ==
    LET appended == Append(webhook_history, ref)
    IN  IF Len(appended) > WebhookHandler_max_history
        THEN Tail(appended)
        ELSE appended

\* Nothing in the try block can raise for a dict argument, so the except
\* branch (status "error") is never taken.
\* The state of the handler after process_webhook(data) and what the call
\* returns.  processed_at and result are keys the dispatcher adds later.
process_webhook_call(data) ==
    LET ref == Len(webhooks) + 1
        webhook_data == [type         |-> data.type,
                         severity     |-> data.severity,
                         received_at  |-> datetime_now,
                         processed    |-> FALSE,
                         webhook_id   |-> _generate_webhook_id,
                         processed_at |-> -1,
                         result       |-> NoResult]
    IN  [webhooks         |-> Append(webhooks, webhook_data),
         webhook_history  |-> append_to_webhook_history(ref),
         processing_queue |-> queue_put(ref),
         result |-> [success    |-> TRUE,
                     status     |-> "accepted",
                     webhook_id |-> webhook_data.webhook_id,
                     processing |-> "queued"]]

process_webhook(data) ==
    /\ Len(webhooks) < MaxWebhooks
    /\ LET r == process_webhook_call(data)
       IN  /\ webhooks' = r.webhooks
           /\ webhook_history' = r.webhook_history
           /\ processing_queue' = r.processing_queue
           /\ ret' = [op |-> "process_webhook", type |-> data.type,
                      pre_len |-> Len(webhooks),
                      pre_queue |-> processing_queue,
                      result |-> r.result]
    /\ clock' = clock + 1          \* the call itself takes time
    /\ UNCHANGED <<requestVars, securityVars, agentVars, _background_task, consumers>>

\* if self._background_task is None, with the test left out
task_is_None_unchecked == TRUE

\* if self._background_task is None
task_is_None == _background_task = "None"

\* asyncio.get_event_loop() returns a loop, or raises RuntimeError where the
\* thread has none.
EventLoops == {"loop", "RuntimeError"}

\* A new task starts at the top of the loop, about to call queue.get().
start_background_processing(event_loop) ==
    /\ Len(consumers) < MaxConsumers
    /\ IF task_is_None /\ event_loop = "loop"
       THEN /\ _background_task' = "task"
            /\ consumers' = Append(consumers, "get")
       ELSE UNCHANGED <<_background_task, consumers>>
    /\ ret' = [op |-> "start_background_processing",
               pre_task |-> _background_task,
               event_loop |-> event_loop]
    /\ UNCHANGED <<requestVars, clock, securityVars, agentVars, webhooks, webhook_history,
                   processing_queue>>

\* severity.upper() raises AttributeError for a severity that is not a string
_handle_system_alert(webhook_data) ==
    IF webhook_data.severity = "non-string"
    THEN [raised |-> TRUE, status |-> "",
          message |-> "object has no attribute 'upper'"]
    ELSE [raised |-> FALSE, status |-> "processed", message |-> ""]

\* The other handlers only read keys with .get and build a dict.
_handle_generic_webhook(webhook_data) ==
    [raised |-> FALSE, status |-> "processed", message |-> ""]

\* An except clause too narrow for what the handlers raise
except_Exception_narrow(raised) == FALSE

\* "except Exception as e": does the clause catch what was raised in its
\* try block?  (of _route_webhook and of the loop of _process_webhook_queue)
except_Exception(raised) == raised

\* _route_webhook without its try/except: what a handler raises goes up to
\* the loop.
_route_webhook_unguarded(webhook_data) ==
    IF webhook_data.type = "system_alert"
    THEN _handle_system_alert(webhook_data)
    ELSE _handle_generic_webhook(webhook_data)

_route_webhook(webhook_data) ==
    LET h == IF webhook_data.type = "system_alert"
             THEN _handle_system_alert(webhook_data)
             ELSE _handle_generic_webhook(webhook_data)
    IN  IF except_Exception(h.raised)
        THEN [raised |-> FALSE, status |-> "error", message |-> h.message]
        ELSE h

\* asyncio.Queue.get taking the newest item
queue_get_lifo(queue) ==
    [item |-> queue[Len(queue)], rest |-> SubSeq(queue, 1, Len(queue) - 1)]

\* await self.processing_queue.get() on a queue that is not empty
queue_get(queue) == [item |-> Head(queue), rest |-> Tail(queue)]

\* The update that sets the flag and nothing else
mark_processed_flag_only(webhook_data, result) ==
    [webhook_data EXCEPT !.processed = TRUE]

\* webhook_data.update({"processed": True, "processed_at": .., "result": ..})
mark_processed(webhook_data, result) ==
    [webhook_data EXCEPT !.processed = TRUE,
                         !.processed_at = datetime_now,
                         !.result = [status |-> result.status,
                                     message |-> result.message]]

\* One pass of the loop of _process_webhook_queue by consumer c, from the
\* return of queue.get() to the call of asyncio.sleep(0.1).  Nothing in
\* between suspends, so the pass is atomic.  An exception that no except
\* clause catches ends the task.
ProcessOne(c) ==
    /\ c \in DOMAIN consumers
    /\ consumers[c] = "get"
    /\ processing_queue # <<>>
    /\ LET g == queue_get(processing_queue)
           r == _route_webhook(webhooks[g.item])
       IN  /\ processing_queue' = g.rest
           /\ webhooks' =
                 IF r.raised
                 THEN webhooks
                 ELSE [webhooks EXCEPT ![g.item] = mark_processed(@, r)]
           /\ consumers' =
                 [consumers EXCEPT ![c] =
                     IF r.raised /\ ~except_Exception(r.raised)
                     THEN "dead" ELSE "sleep"]
           /\ ret' = [op |-> "_process_webhook_queue", item |-> g.item]
    /\ UNCHANGED <<requestVars, clock, securityVars, agentVars, webhook_history,
                   _background_task>>

\* asyncio.sleep(0.1) returns and the loop goes back to queue.get()
Wake(c) ==
    /\ c \in DOMAIN consumers
    /\ consumers[c] = "sleep"
    /\ consumers' = [consumers EXCEPT ![c] = "get"]
    /\ UNCHANGED <<requestVars, clock, securityVars, agentVars, webhooks, webhook_history,
                   processing_queue, _background_task, ret>>

\* Statistics that count every stored record as processed
get_webhook_stats_unfiltered ==
    [total_webhooks     |-> Len(webhook_history),
     processed_webhooks |-> Len(webhook_history),
     pending_webhooks   |-> Len(processing_queue)]

\* get_webhook_stats(): the counts (success_rate is their quotient)
get_webhook_stats ==
    [total_webhooks     |-> Len(webhook_history),
     processed_webhooks |->
         Cardinality({i \in DOMAIN webhook_history :
                         webhooks[webhook_history[i]].processed}),
     pending_webhooks   |-> Len(processing_queue)]

(***************************************************************************)
(* BaseAgent and AgentManager.  Absent keys of a result dict are "".       *)
(***************************************************************************)
AgentNameArgs == {"file_organization", "no_such_agent"}

ParameterBags == {"{}", "{\"operation\": \"add_test_files\"}"}

\* BaseAgent.__init__, and AgentManager._initialize_agents registering it
BaseAgent_init ==
    [status |-> "idle", enabled |-> TRUE, tasks_completed |-> 0, tasks_failed |-> 0]

AgentManager_agents == [file_organization |-> BaseAgent_init]

auto_report_status == TRUE

webhook_enabled == TRUE

\* What validate_parameters of an agent may do (BaseAgent returns True;
\* subclasses override it).
ValidateOutcomes == {"true", "false", "raise"}

\* What execute of an agent may do: return a result dict with or without
\* success, or raise.
ExecuteOutcomes ==
    {[kind |-> "return", success |-> TRUE,  msg |-> ""],
     [kind |-> "return", success |-> FALSE, msg |-> "Unknown operation: x"],
     [kind |-> "raise",  success |-> FALSE, msg |-> "[Errno 28] No space left on device"]}

\* The body without its try/except: the AttributeError of the missing
\* WebhookHandler.send_system_alert escapes.
_report_status_change_unguarded(status, message) == TRUE

\* Does an exception leave _report_status_change?  Whatever the body raises
\* is caught by "except Exception: pass".
_report_status_change(status, message) == FALSE

\* update_status without the assignment of self.status
update_status_skipped(agent, status, message) ==
    [agent  |-> agent,
     raised |-> auto_report_status /\ webhook_enabled
                    /\ _report_status_change(status, message)]

\* The agent after update_status, and whether the call raised
update_status(agent, status, message) ==
    [agent  |-> [agent EXCEPT !.status = status],
     raised |-> auto_report_status /\ webhook_enabled
                    /\ _report_status_change(status, message)]

\* _add_to_history evicting the newest entry instead of the oldest
_add_to_history_pop_last(agent_name, result) ==
    LET history_entry == [agent_name |-> agent_name,
                          success    |-> result.success,
                          seq        |-> hist_appended + 1]
        appended == Append(agent_status_history, history_entry)
    IN  IF Len(appended) > AgentManager_max_history
        THEN SubSeq(appended, 1, Len(appended) - 1)
        ELSE appended

\* seq is a history field: the position of the entry among all entries
\* ever appended.
_add_to_history(agent_name, result) ==
    LET history_entry == [agent_name |-> agent_name,
                          success    |-> result.success,
                          seq        |-> hist_appended + 1]
        appended == Append(agent_status_history, history_entry)
    IN  IF Len(appended) > AgentManager_max_history
        THEN Tail(appended)
        ELSE appended

\* A rejection that leaves an entry in the execution history
Rejected_recorded(error) ==
    [agents   |-> agents,
     history  |-> Append(agent_status_history,
                         [agent_name |-> "", success |-> FALSE,
                          seq |-> hist_appended + 1]),
     appended |-> hist_appended + 1,
     raised   |-> FALSE,
     invoked  |-> FALSE,
     result   |-> [success |-> FALSE, error |-> error,
                   agent_name |-> "", agent_status |-> ""]]

\* A return before anything was changed
Rejected(error) ==
    [agents   |-> agents,
     history  |-> agent_status_history,
     appended |-> hist_appended,
     raised   |-> FALSE,
     invoked  |-> FALSE,
     result   |-> [success |-> FALSE, error |-> error,
                   agent_name |-> "", agent_status |-> ""]]

\* An except branch that also counts the task as failed
ExceptBranch_counting(agent_name, ags, message, invoked) ==
    LET u == update_status([ags[agent_name] EXCEPT !.tasks_failed = @ + 1],
                           "failed", message)
    IN  [agents   |-> [ags EXCEPT ![agent_name] = u.agent],
         history  |-> agent_status_history,
         appended |-> hist_appended,
         raised   |-> u.raised,
         invoked  |-> invoked,
         result   |-> [success |-> FALSE, error |-> message,
                       agent_name |-> agent_name, agent_status |-> ""]]

\* The except branch of execute_agent, entered with the agents as they are
\* when the exception is raised; invoked tells whether execute was called.
ExceptBranch(agent_name, ags, message, invoked) ==
    LET u == IF agent_name \in DOMAIN ags
             THEN update_status(ags[agent_name], "failed", message)
             ELSE [agent |-> BaseAgent_init, raised |-> FALSE]
    IN  [agents   |-> IF agent_name \in DOMAIN ags
                      THEN [ags EXCEPT ![agent_name] = u.agent]
                      ELSE ags,
         history  |-> agent_status_history,
         appended |-> hist_appended,
         raised   |-> u.raised,
         invoked  |-> invoked,
         result   |-> [success |-> FALSE, error |-> message,
                       agent_name |-> agent_name, agent_status |-> ""]]

\* The two counters taken for each other
count_task_swapped(agent, success) ==
    IF success
    THEN [agent EXCEPT !.tasks_failed = @ + 1]
    ELSE [agent EXCEPT !.tasks_completed = @ + 1]

\* if result.get('success', False): tasks_completed += 1, else tasks_failed += 1
count_task(agent, success) ==
    IF success
    THEN [agent EXCEPT !.tasks_completed = @ + 1]
    ELSE [agent EXCEPT !.tasks_failed = @ + 1]

\* The check "if not agent.enabled" left out
is_disabled_never(agent) == FALSE

\* if not agent.enabled
is_disabled(agent) == ~agent.enabled

\* execute_agent(agent_name, parameters) for an agent whose
\* validate_parameters does vo and whose execute does eo.
execute_agent(agent_name, parameters, vo, eo) ==
    IF agent_name \notin DOMAIN agents
    THEN Rejected("Agent " \o agent_name \o " not found")
    ELSE IF is_disabled(agents[agent_name])
    THEN Rejected("Agent " \o agent_name \o " is disabled")
    ELSE IF vo = "raise"
    THEN ExceptBranch(agent_name, agents, "validation failed", FALSE)
    ELSE IF vo = "false"
    THEN Rejected("Invalid parameters for agent " \o agent_name)
    ELSE
    LET r1   == update_status(agents[agent_name], "running", "Executing task")
        ags1 == [agents EXCEPT ![agent_name] = r1.agent]
    IN  IF r1.raised
        THEN ExceptBranch(agent_name, ags1, "status report failed", FALSE)
        ELSE IF eo.kind = "raise"
        THEN ExceptBranch(agent_name, ags1, eo.msg, TRUE)
        ELSE
        LET counted == count_task(r1.agent, eo.success)
            r2   == update_status(counted,
                                  IF eo.success THEN "completed" ELSE "failed",
                                  eo.msg)
            ags2 == [agents EXCEPT ![agent_name] = r2.agent]
        IN  IF r2.raised
            THEN ExceptBranch(agent_name, ags2, "status report failed", TRUE)
            ELSE [agents   |-> ags2,
                  history  |-> _add_to_history(agent_name, eo),
                  appended |-> hist_appended + 1,
                  raised   |-> FALSE,
                  invoked  |-> TRUE,
                  result   |-> [success |-> eo.success, error |-> eo.msg,
                                agent_name |-> agent_name,
                                agent_status |-> r2.agent.status]]

\* What the record of a call shows for an execute that was never called
NotCalled == [kind |-> "not called", success |-> FALSE, msg |-> ""]

\* The fields of the agent before the call (the initial ones for a name
\* that is not registered).
Pre(agent_name) ==
    IF agent_name \in DOMAIN agents THEN agents[agent_name] ELSE BaseAgent_init

ExecuteAgent(agent_name, parameters, vo, eo) ==
    /\ hist_appended < MaxExec
    /\ \A a \in DOMAIN agents :
           agents[a].tasks_completed + agents[a].tasks_failed < MaxExec
    /\ LET r == execute_agent(agent_name, parameters, vo, eo)
       IN  /\ agents' = r.agents
           /\ agent_status_history' = r.history
           /\ hist_appended' = r.appended
           /\ ret' = [op |-> "execute_agent", agent_name |-> agent_name,
                      parameters |-> parameters,
                      registered |-> agent_name \in DOMAIN agents,
                      pre |-> Pre(agent_name),
                      pre_appended |-> hist_appended,
                      validate |-> IF agent_name \in DOMAIN agents
                                      /\ ~is_disabled(agents[agent_name])
                                   THEN vo ELSE "not called",
                      execute |-> IF r.invoked THEN eo ELSE NotCalled,
                      invoked |-> r.invoked,
                      raised |-> r.raised,
                      result |-> r.result]
    /\ UNCHANGED <<requestVars, clock, securityVars, webhookVars>>

\* if agent_name not in self.agents, with the test left out
agent_registered_unchecked(agent_name) == TRUE

\* if agent_name not in self.agents: return the "not found" failure
agent_registered(agent_name) == agent_name \in DOMAIN agents

\* The body shared by enable_agent and disable_agent: the agents after the
\* call, whether it raised (self.agents[agent_name] raises KeyError for a
\* missing name) and the dict it returned.
set_enabled(agent_name, enabled, status, message) ==
    IF ~agent_registered(agent_name)
    THEN [agents |-> agents, raised |-> FALSE,
          result |-> [success |-> FALSE,
                      error |-> "Agent " \o agent_name \o " not found"]]
    ELSE IF agent_name \notin DOMAIN agents
    THEN [agents |-> agents, raised |-> TRUE,
          result |-> [success |-> FALSE, error |-> "KeyError"]]
    ELSE LET u == update_status([agents[agent_name] EXCEPT !.enabled = enabled],
                                status, message)
         IN  [agents |-> [agents EXCEPT ![agent_name] = u.agent],
              raised |-> u.raised,
              result |-> [success |-> TRUE, error |-> ""]]

\* enable_agent without the return to IDLE
enable_agent_call_status_kept(agent_name) ==
    set_enabled(agent_name, TRUE, "disabled", "Agent enabled")

enable_agent_call(agent_name) ==
    set_enabled(agent_name, TRUE, "idle", "Agent enabled")

\* disable_agent that clears the flag and leaves the status for IDLE
disable_agent_call_flag_only(agent_name) ==
    set_enabled(agent_name, FALSE, "idle", "Agent disabled")

disable_agent_call(agent_name) ==
    set_enabled(agent_name, FALSE, "disabled", "Agent disabled")

enable_agent(agent_name) ==
    /\ LET r == enable_agent_call(agent_name)
       IN  /\ agents' = r.agents
           /\ ret' = [op |-> "enable_agent", agent_name |-> agent_name,
                      pre |-> Pre(agent_name),
                      raised |-> r.raised, result |-> r.result]
    /\ UNCHANGED <<requestVars, clock, securityVars, webhookVars, agent_status_history, hist_appended>>

disable_agent(agent_name) ==
    /\ LET r == disable_agent_call(agent_name)
       IN  /\ agents' = r.agents
           /\ ret' = [op |-> "disable_agent", agent_name |-> agent_name,
                      pre |-> Pre(agent_name),
                      raised |-> r.raised, result |-> r.result]
    /\ UNCHANGED <<requestVars, clock, securityVars, webhookVars, agent_status_history, hist_appended>>

(***************************************************************************)
(* The history queries.                                                    *)
(***************************************************************************)
Max(a, b) == IF a >= b THEN a ELSE b

Min(a, b) == IF a <= b THEN a ELSE b

\* list[start:] of Python: a negative start counts from the end and stops
\* at the front; start 0 (also written -0) is the front of the list.
py_slice_from(list, start) ==
    LET lower == IF start < 0
                 THEN Max(start + Len(list), 0)
                 ELSE IF start <= Len(list) THEN start ELSE Len(list)
    IN  SubSeq(list, lower + 1, Len(list))

Limits == 0..(WebhookHandler_max_history + 1)

\* agent_name of get_execution_history: "" stands for None (both are falsy)
AgentFilterArgs == {"", "file_organization", "no_such_agent"}

\* return self.webhook_history[-limit:]
get_webhook_history(limit) == py_slice_from(webhook_history, -limit)

GetWebhookHistory(limit) ==
    /\ ret' = [op |-> "get_webhook_history", limit |-> limit,
               result |-> get_webhook_history(limit)]
    /\ UNCHANGED <<requestVars, clock, securityVars, webhookVars, agentVars>>

\* The 'history' entry of the dict get_execution_history returns
get_execution_history(agent_name, limit) ==
    LET filtered_history ==
            IF agent_name # ""
            THEN SelectSeq(agent_status_history,
                           LAMBDA entry : entry.agent_name = agent_name)
            ELSE agent_status_history
    IN  IF limit > 0
        THEN py_slice_from(filtered_history, -limit)
        ELSE filtered_history

GetExecutionHistory(agent_name, limit) ==
    /\ ret' = [op |-> "get_execution_history", agent_name |-> agent_name,
               limit |-> limit,
               result |-> get_execution_history(agent_name, limit)]
    /\ UNCHANGED <<requestVars, clock, securityVars, webhookVars, agentVars>>

(***************************************************************************)
(* N8NIntegrationAPI: the HTTP endpoints.  The constructor creates the     *)
(* SecurityManager and the WebhookHandler and starts no consumer task.     *)
(***************************************************************************)
ClientIps == {"127.0.0.1", "10.0.0.7"}

ApiTokens == {"sk_codealchemy_n8n_2025", "sk_invalid"}

enable_ip_whitelist == TRUE

allowed_ips == {"127.0.0.1", "localhost", "::1"}

validate_ip_address(client_ip) ==
    IF enable_ip_whitelist /\ client_ip \notin allowed_ips
    THEN [raised |-> TRUE, status_code |-> 403]
    ELSE [raised |-> FALSE, status_code |-> 0]

\* except Exception as e: raise HTTPException(status_code=500, detail=str(e))
\* HTTPException is an Exception, so the clause also catches the 403 and the
\* 429 raised inside the try block.
endpoint_except(status_code) == 500

\* What every endpoint does before its own work: the dependency
\* get_api_key_from_header runs before the body (its 401 is raised outside
\* the try block), validate_ip_address and check_rate_limit run inside it.
\* gate is the status the SecurityManager raised (0: none), status_code
\* the status of the HTTP response that results (0: the body goes on).
security_checks(token, client_ip) ==
    LET v == validate_api_key(token)
    IN  IF v.raised
        THEN [gate |-> v.status_code, status_code |-> v.status_code,
              checked |-> FALSE, api_key |-> "", request_counts |-> request_counts]
        ELSE
        LET ip == validate_ip_address(client_ip)
        IN  IF ip.raised
            THEN [gate |-> ip.status_code,
                  status_code |-> endpoint_except(ip.status_code),
                  checked |-> FALSE, api_key |-> v.value,
                  request_counts |-> request_counts]
            ELSE
            LET rl == check_rate_limit(v.value)
            IN  [gate |-> rl.status_code,
                 status_code |-> IF rl.raised
                                 THEN endpoint_except(rl.status_code) ELSE 0,
                 checked |-> TRUE, api_key |-> v.value,
                 request_counts |-> rl.request_counts]

\* secure_endpoint that spends the rate-limit budget before the other checks
secure_endpoint_call_rate_first(token, client_ip) ==
    LET rl == check_rate_limit(token)
        ip == validate_ip_address(client_ip)
        v  == validate_api_key(token)
    IN  [gate |-> IF rl.raised THEN rl.status_code
                  ELSE IF ip.raised THEN ip.status_code
                  ELSE v.status_code,
         status_code |-> IF rl.raised THEN rl.status_code
                         ELSE IF ip.raised THEN ip.status_code
                         ELSE v.status_code,
         checked |-> TRUE, api_key |-> token,
         request_counts |-> rl.request_counts]

\* SecurityManager.secure_endpoint as a dependency: the allow-list first,
\* then the key, then the rate limit, which it keys by the credentials it
\* was given; nothing catches what it raises.
secure_endpoint_call(token, client_ip) ==
    LET ip == validate_ip_address(client_ip)
    IN  IF ip.raised
        THEN [gate |-> ip.status_code, status_code |-> ip.status_code,
              checked |-> FALSE, api_key |-> "", request_counts |-> request_counts]
        ELSE
        LET v == validate_api_key(token)
        IN  IF v.raised
            THEN [gate |-> v.status_code, status_code |-> v.status_code,
                  checked |-> FALSE, api_key |-> "",
                  request_counts |-> request_counts]
            ELSE
            LET rl == check_rate_limit(token)
            IN  [gate |-> rl.status_code, status_code |-> rl.status_code,
                 checked |-> TRUE, api_key |-> token,
                 request_counts |-> rl.request_counts]

\* rl_log after the checks of one request
LogRateCheck(sec) ==
    IF sec.checked
    THEN Append(rl_log, [key |-> sec.api_key, t |-> time_time, ok |-> sec.gate = 0])
    ELSE rl_log

\* POST /webhook/system-alert, /webhook/file-organization,
\* /webhook/content-analysis, /webhook/productivity.  A request is short
\* against the rate-limit window: time passes in Tick.
webhook_endpoint(data, client_ip, token) ==
    /\ Len(webhooks) < MaxWebhooks
    /\ Len(rl_log) < MaxCalls
    /\ LET sec == security_checks(token, client_ip)
           r   == process_webhook_call(data)
       IN  /\ request_counts' = sec.request_counts
           /\ rl_log' = LogRateCheck(sec)
           /\ IF sec.status_code = 0
              THEN /\ webhooks' = r.webhooks
                   /\ webhook_history' = r.webhook_history
                   /\ processing_queue' = r.processing_queue
              ELSE UNCHANGED <<webhooks, webhook_history, processing_queue>>
           /\ ret' = [op |-> "webhook_endpoint", type |-> data.type,
                      client_ip |-> client_ip, token |-> token,
                      gate |-> sec.gate,
                      status_code |-> IF sec.status_code = 0 THEN 200
                                      ELSE sec.status_code,
                      accepted |-> sec.status_code = 0]
    /\ UNCHANGED <<requestVars, clock, api_keys, agentVars, _background_task, consumers>>

\* A request to an endpoint that depends on secure_endpoint
secure_endpoint(client_ip, token) ==
    /\ Len(rl_log) < MaxCalls
    /\ LET sec == secure_endpoint_call(token, client_ip)
       IN  /\ request_counts' = sec.request_counts
           /\ rl_log' = LogRateCheck(sec)
           /\ ret' = [op |-> "secure_endpoint",
                      client_ip |-> client_ip, token |-> token,
                      gate |-> sec.gate,
                      status_code |-> IF sec.status_code = 0 THEN 200
                                      ELSE sec.status_code,
                      accepted |-> sec.status_code = 0]
    /\ UNCHANGED <<requestVars, clock, api_keys, webhookVars, agentVars>>

\* The body of the two endpoints below, around the call of the manager
agent_endpoint(op, agent_name, client_ip, token, r) ==
    /\ Len(rl_log) < MaxCalls
    /\ LET sec == security_checks(token, client_ip)
       IN  /\ request_counts' = sec.request_counts
           /\ rl_log' = LogRateCheck(sec)
           /\ agents' = IF sec.status_code = 0 THEN r.agents ELSE agents
           /\ ret' = [op |-> op, agent_name |-> agent_name,
                      client_ip |-> client_ip, token |-> token,
                      gate |-> sec.gate,
                      pre_agents |-> agents,
                      status_code |-> IF sec.status_code # 0 THEN sec.status_code
                                      ELSE IF r.raised THEN endpoint_except(0)
                                      ELSE 200,
                      body |-> IF sec.status_code = 0 /\ ~r.raised
                               THEN r.result
                               ELSE [success |-> FALSE, error |-> "HTTPException"]]
    /\ UNCHANGED <<requestVars, clock, api_keys, webhookVars, agent_status_history, hist_appended>>

\* POST /api/agents/{agent_name}/enable: returns the dict of the manager
enable_agent_endpoint(agent_name, client_ip, token) ==
    agent_endpoint("enable_agent_endpoint", agent_name, client_ip, token,
                   enable_agent_call(agent_name))

\* POST /api/agents/{agent_name}/disable
disable_agent_endpoint(agent_name, client_ip, token) ==
    agent_endpoint("disable_agent_endpoint", agent_name, client_ip, token,
                   disable_agent_call(agent_name))

(***************************************************************************)
(* Initial state: the objects as their constructors leave them.            *)
(***************************************************************************)
(***************************************************************************)
(* POST /api/agents/{agent_name}/trigger with several requests in progress. *)
(* The dependency get_api_key_from_header is a plain function, which the    *)
(* framework runs in a worker thread before the body: the event loop serves *)
(* other requests meanwhile.  The body is a coroutine on the event loop.    *)
(***************************************************************************)
MaxRequests == rate_limit_requests + 1

\* result = await agent.execute(parameters): execute gives the loop a turn
suspends_in_execute_awaited == TRUE

\* result = agent.execute(parameters) is a plain call, and nothing between
\* the first line of the body of trigger_agent and its return awaits
\* anything but execute_agent itself: the event loop gets no turn.
suspends_in_execute == FALSE

\* The request arrives and its dependency validates the key: 401 ends it.
trigger_agent_arrive(agent_name, client_ip, token) ==
    /\ Len(requests) < MaxRequests
    /\ LET v == validate_api_key(token)
       IN  /\ requests' = Append(requests,
                  [agent_name |-> agent_name, client_ip |-> client_ip,
                   api_key |-> v.value,
                   pc |-> IF v.raised THEN "done" ELSE "body",
                   status_code |-> v.status_code,
                   invoked |-> FALSE,
                   finished |-> 0])
           /\ ret' = [op |-> "get_api_key_from_header",
                      request |-> Len(requests) + 1]
    /\ UNCHANGED <<clock, securityVars, webhookVars, agentVars, dispatched>>

\* The body of trigger_agent for request i, from where it stands to its
\* next suspension or its end: validate_ip_address, check_rate_limit,
\* execute_agent, return; any exception of the first two becomes a 500.
trigger_agent(i, parameters, vo, eo) ==
    /\ i \in DOMAIN requests
    /\ requests[i].pc \in {"body", "executing"}
    /\ LET q       == requests[i]
           ip      == validate_ip_address(q.client_ip)
           rl      == check_rate_limit(q.api_key)
           r       == execute_agent(q.agent_name, parameters, vo, eo)
           checked == q.pc = "body" /\ ~ip.raised
           stopped == q.pc = "body" /\ (ip.raised \/ rl.raised)
           yields  == q.pc = "body" /\ ~stopped /\ r.invoked /\ suspends_in_execute
           nth     == Cardinality({j \in DOMAIN requests :
                                      requests[j].finished > 0}) + 1
       IN  /\ request_counts' = IF checked THEN rl.request_counts ELSE request_counts
           /\ rl_log' = IF checked
                        THEN Append(rl_log, [key |-> q.api_key, t |-> time_time,
                                             ok |-> ~rl.raised])
                        ELSE rl_log
           /\ IF stopped
              THEN /\ requests' = [requests EXCEPT ![i] =
                            [@ EXCEPT !.pc = "done",
                                      !.status_code = endpoint_except(0),
                                      !.finished = nth]]
                   /\ UNCHANGED <<agentVars, dispatched>>
              ELSE IF yields
              THEN /\ requests' = [requests EXCEPT ![i].pc = "executing"]
                   /\ agents' = [agents EXCEPT ![q.agent_name] =
                            update_status(@, "running", "Executing task").agent]
                   /\ UNCHANGED <<agent_status_history, hist_appended, dispatched>>
              ELSE /\ requests' = [requests EXCEPT ![i] =
                            [@ EXCEPT !.pc = "done",
                                      !.status_code = IF r.raised
                                                      THEN endpoint_except(0)
                                                      ELSE 200,
                                      !.invoked = r.invoked /\ eo.kind = "return",
                                      !.finished = nth]]
                   /\ agents' = r.agents
                   /\ agent_status_history' = r.history
                   /\ hist_appended' = r.appended
                   /\ dispatched' =
                         IF r.invoked /\ eo.kind = "return"
                         THEN [dispatched EXCEPT ![q.agent_name] = @ + 1]
                         ELSE dispatched
           /\ ret' = [op |-> "trigger_agent", request |-> i]
    /\ UNCHANGED <<clock, api_keys, webhookVars>>

Init ==
    /\ clock = 0
    /\ api_keys = SecurityManager_api_keys
    /\ request_counts = <<>>
    /\ rl_log = <<>>
    /\ webhooks = <<>>
    /\ webhook_history = <<>>
    /\ processing_queue = <<>>
    /\ _background_task = "None"
    /\ consumers = <<>>
    /\ agents = AgentManager_agents
    /\ agent_status_history = <<>>
    /\ hist_appended = 0
    /\ requests = <<>>
    /\ dispatched = [a \in DOMAIN AgentManager_agents |-> 0]
    /\ ret = [op |-> "init"]

NextSecurity ==
    \/ Tick
    \/ \E token \in Tokens, payload \in Payloads : ValidateApiKey(token, payload)
    \/ \E api_key \in RateKeys : CheckRateLimit(api_key)
    \/ \E key_name \in KeyNameArgs, new_key \in NewKeys : RotateApiKey(key_name, new_key)

SpecSecurity == Init /\ [][NextSecurity]_vars

\* The rate limiter alone, over the passing of time
NextRate ==
    \/ Tick
    \/ \E api_key \in RateKeys : CheckRateLimit(api_key)

SpecRate == Init /\ [][NextRate]_vars

\* The operations of SecurityManager at one instant: what they do to the
\* key table does not depend on the time.
NextKeys ==
    \/ \E token \in Tokens, payload \in Payloads : ValidateApiKey(token, payload)
    \/ \E api_key \in RateKeys : CheckRateLimit(api_key)
    \/ \E key_name \in KeyNameArgs, new_key \in NewKeys : RotateApiKey(key_name, new_key)

SpecKeys == Init /\ [][NextKeys]_vars

\* WebhookHandler and AgentManager side by side: every interleaving of
\* their calls.
Next ==
    \/ \E data \in ApiWebhookDicts : process_webhook(data)
    \/ \E agent_name \in AgentNameArgs, parameters \in ParameterBags,
          vo \in ValidateOutcomes, eo \in ExecuteOutcomes :
            ExecuteAgent(agent_name, parameters, vo, eo)
    \/ \E agent_name \in AgentNameArgs : enable_agent(agent_name)
    \/ \E agent_name \in AgentNameArgs : disable_agent(agent_name)

Spec == Init /\ [][Next]_vars

NextWebhook ==
    \/ Tick
    \/ \E data \in WebhookDicts : process_webhook(data)

SpecWebhook == Init /\ [][NextWebhook]_vars

\* WebhookHandler with its consumer loop: submissions interleaved with the
\* passes of the loop.
NextDispatcher ==
    \/ \E data \in WebhookDicts : process_webhook(data)
    \/ \E event_loop \in EventLoops : start_background_processing(event_loop)
    \/ \E c \in 1..MaxConsumers : ProcessOne(c)
    \/ \E c \in 1..MaxConsumers : Wake(c)

SpecDispatcher == Init /\ [][NextDispatcher]_vars

\* The event loop runs every task that is ready: a consumer whose get() can
\* return is resumed, and a sleep of 0.1 s ends.
SpecDispatcherFair ==
    /\ SpecDispatcher
    /\ \A c \in 1..MaxConsumers : WF_vars(ProcessOne(c)) /\ WF_vars(Wake(c))

NextAgent ==
    \/ \E agent_name \in AgentNameArgs, parameters \in ParameterBags,
          vo \in ValidateOutcomes, eo \in ExecuteOutcomes :
            ExecuteAgent(agent_name, parameters, vo, eo)
    \/ \E agent_name \in AgentNameArgs : enable_agent(agent_name)
    \/ \E agent_name \in AgentNameArgs : disable_agent(agent_name)

SpecAgent == Init /\ [][NextAgent]_vars

\* Both histories being filled and queried
NextQueries ==
    \/ \E data \in ApiWebhookDicts : process_webhook(data)
    \/ \E agent_name \in AgentNameArgs, eo \in ExecuteOutcomes :
            ExecuteAgent(agent_name, "{}", "true", eo)
    \/ \E limit \in Limits : GetWebhookHistory(limit)
    \/ \E agent_name \in AgentFilterArgs, limit \in Limits :
            GetExecutionHistory(agent_name, limit)

SpecQueries == Init /\ [][NextQueries]_vars

\* The process as api.py builds it: requests to the webhook endpoints, and
\* nothing that calls start_background_processing.
NextApi ==
    \/ Tick
    \/ \E data \in ApiWebhookDicts, client_ip \in ClientIps, token \in ApiTokens :
            webhook_endpoint(data, client_ip, token)

SpecApi == Init /\ [][NextApi]_vars

\* The event loop runs every consumer task that exists and is ready.
SpecApiFair ==
    /\ SpecApi
    /\ \A c \in 1..MaxConsumers : WF_vars(ProcessOne(c)) /\ WF_vars(Wake(c))

\* Requests through both ways into the SecurityManager: the webhook
\* endpoints and the secure_endpoint dependency.
NextGate ==
    \/ Tick
    \/ \E data \in ApiWebhookDicts, client_ip \in ClientIps, token \in ApiTokens :
            webhook_endpoint(data, client_ip, token)
    \/ \E client_ip \in ClientIps, token \in ApiTokens :
            secure_endpoint(client_ip, token)

SpecGate == Init /\ [][NextGate]_vars

\* Trigger requests that overlap; they are short against the rate-limit
\* window, so no time passes.
NextTrigger ==
    \/ \E agent_name \in AgentNameArgs, client_ip \in ClientIps, token \in ApiTokens :
            trigger_agent_arrive(agent_name, client_ip, token)
    \/ \E i \in 1..MaxRequests, parameters \in ParameterBags,
          vo \in ValidateOutcomes, eo \in ExecuteOutcomes :
            trigger_agent(i, parameters, vo, eo)

SpecTrigger == Init /\ [][NextTrigger]_vars

\* Requests to the agent endpoints
NextApiAgents ==
    \/ Tick
    \/ \E agent_name \in AgentNameArgs, client_ip \in ClientIps, token \in ApiTokens :
            enable_agent_endpoint(agent_name, client_ip, token)
    \/ \E agent_name \in AgentNameArgs, client_ip \in ClientIps, token \in ApiTokens :
            disable_agent_endpoint(agent_name, client_ip, token)

SpecApiAgents == Init /\ [][NextApiAgents]_vars

(***************************************************************************)
(* Properties of SecurityManager (checked under SpecSecurity, C18 under    *)
(* SpecKeys)                                                               *)
(***************************************************************************)

\* C1: validate_api_key raises HTTP 401 for every token that is not one of
\* the configured key values and returns a key name holding that value for
\* every token that is; the request payload has no part in the outcome.
C1_ValidateApiKey ==
    ret.op = "validate_api_key" =>
        /\ (ret.token \notin Range(api_keys)) =>
                (ret.result.raised /\ ret.result.status_code = 401)
        /\ (ret.token \in Range(api_keys)) =>
                /\ ~ret.result.raised
                /\ ret.result.value \in DOMAIN api_keys
                /\ api_keys[ret.result.value] = ret.token

C1_Witness ==
    /\ ret.op = "validate_api_key"
    /\ ret.token \notin Range(api_keys)
    /\ ret.payload # "{}"
    /\ ret.result.status_code = 401

\* The calls of rl_log before call j that were accepted for the same key.
AcceptedBefore(j) ==
    {i \in 1..(j - 1) : rl_log[i].key = rl_log[j].key /\ rl_log[i].ok}

\* C2: a check_rate_limit call that finds rate_limit_requests accepted
\* calls of its key less than rate_limit_window ago is rejected (429), and a
\* call made when every accepted call of its key lies more than
\* rate_limit_window back is accepted again.
C2_SlidingWindow ==
    \A j \in 1..Len(rl_log) :
        /\ Cardinality({i \in AcceptedBefore(j) :
                rl_log[j].t - rl_log[i].t < rate_limit_window}) >= rate_limit_requests
              => ~rl_log[j].ok
        /\ (\A i \in AcceptedBefore(j) : rl_log[j].t - rl_log[i].t > rate_limit_window)
              => rl_log[j].ok

\* A key was blocked after rate_limit_requests accepted calls and is served
\* again after the window has passed.
C2_Witness ==
    \E k \in 1..Len(rl_log), j \in 1..Len(rl_log) :
        /\ k < j
        /\ rl_log[k].key = rl_log[j].key
        /\ ~rl_log[k].ok
        /\ Cardinality(AcceptedBefore(k)) = rate_limit_requests
        /\ rl_log[j].ok
        /\ \A i \in AcceptedBefore(k) : rl_log[j].t - rl_log[i].t > rate_limit_window

LastOf(list, m) == [i \in 1..m |-> list[Len(list) - m + i]]

\* C19: get_webhook_history(limit) returns the last
\* min(limit, len(webhook_history)) records in submission order for every
\* limit >= 0 (no record for limit = 0), and get_execution_history(agent,
\* limit) returns at most limit entries when limit >= 1.
C19_LastLimitRecords ==
    /\ ret.op = "get_webhook_history" =>
          ret.result = LastOf(webhook_history, Min(ret.limit, Len(webhook_history)))
    /\ (ret.op = "get_execution_history" /\ ret.limit >= 1) =>
          Len(ret.result) <= ret.limit

(***************************************************************************)
(* Properties of the bounded histories (checked under Spec)                *)
(***************************************************************************)
\* C3: neither history is ever longer than its max_history, whatever the
\* interleaving of process_webhook and execute_agent calls.
C3_HistoryBounded ==
    /\ Len(webhook_history) <= WebhookHandler_max_history
    /\ Len(agent_status_history) <= AgentManager_max_history

\* Both histories are full and both have evicted.
C3_Witness ==
    /\ Len(webhooks) > WebhookHandler_max_history
    /\ Len(webhook_history) = WebhookHandler_max_history
    /\ hist_appended > AgentManager_max_history
    /\ Len(agent_status_history) = AgentManager_max_history

\* C4: eviction is oldest-first: each history holds exactly the most recent
\* min(n, max_history) of the n items submitted to it, in submission order.
C4_OldestFirst ==
    /\ LET n == Len(webhooks)
           m == Min(n, WebhookHandler_max_history)
       IN  webhook_history = [i \in 1..m |-> n - m + i]
    /\ LET n == hist_appended
           m == Min(n, AgentManager_max_history)
       IN  /\ Len(agent_status_history) = m
           /\ \A i \in 1..m : agent_status_history[i].seq = n - m + i

\* max_history + 2 webhooks were submitted and the first two are gone; the
\* execution history has lost its first entry.
C4_Witness ==
    /\ Len(webhooks) = WebhookHandler_max_history + 2
    /\ \A i \in 1..Len(webhook_history) : webhook_history[i] > 2
    /\ hist_appended > AgentManager_max_history
    /\ \A i \in 1..Len(agent_status_history) : agent_status_history[i].seq > 1

(***************************************************************************)
(* Properties of WebhookHandler (C5 under SpecWebhook, the others under    *)
(* SpecDispatcher and SpecDispatcherFair)                                  *)
(***************************************************************************)

\* C5: any two webhooks accepted by process_webhook have different
\* webhook_id values.
C5_UniqueWebhookIds ==
    \A i \in DOMAIN webhooks, j \in DOMAIN webhooks :
        i # j => webhooks[i].webhook_id # webhooks[j].webhook_id

C13_SubmissionOrder ==
    \A a \in DOMAIN webhooks, b \in DOMAIN webhooks :
        (a < b /\ webhooks[b].processed) => webhooks[a].processed

\* Two records were processed while a third, submitted after the first was
\* processed, still waits.
C13_Witness ==
    /\ Len(webhooks) >= 3
    /\ webhooks[1].processed
    /\ webhooks[2].processed
    /\ ~webhooks[3].processed
    /\ webhooks[3].received_at >= webhooks[1].processed_at
    /\ processing_queue # <<>>

\* The handler of record a raises.
HandlerRaises(a) ==
    /\ a \in DOMAIN webhooks
    /\ webhooks[a].type = "system_alert"
    /\ _handle_system_alert(webhooks[a]).raised

\* C14: a handler that raises never stops the consumer loop: once the
\* dispatcher has taken a record whose handler raises, every record
\* submitted after it is eventually taken from the queue and processed.
C14_RaisingHandlerKeepsLoop ==
    \A a \in 1..MaxWebhooks, b \in 1..MaxWebhooks :
        (/\ a < b
         /\ b <= Len(webhooks)
         /\ HandlerRaises(a)
         /\ consumers # <<>>
         /\ a \notin Range(processing_queue))
        ~> (/\ b \in DOMAIN webhooks
            /\ webhooks[b].processed
            /\ b \notin Range(processing_queue))

\* A record whose handler raised carries the error, and a later one was
\* processed after it.
C14_Witness ==
    /\ Len(webhooks) >= 2
    /\ HandlerRaises(1)
    /\ webhooks[1].result.status = "error"
    /\ webhooks[2].processed
    /\ webhooks[2].result.status = "processed"
    /\ ret.op = "_process_webhook_queue"
    /\ ret.item = 2

\* C24: a webhook record is mutated exactly once after creation: processed
\* goes from false to true at most once and is never reset, processed_at
\* and result are set in that same step and never overwritten, and until
\* that step the record stays as it was created.
C24_MutatedOnce ==
    [][\A i \in DOMAIN webhooks :
          /\ i \in DOMAIN webhooks'
          /\ webhooks[i].processed => webhooks'[i] = webhooks[i]
          /\ ~webhooks'[i].processed => webhooks'[i] = webhooks[i]
          /\ (~webhooks[i].processed /\ webhooks'[i].processed) =>
                /\ webhooks'[i].processed_at >= 0
                /\ webhooks'[i].result # NoResult
                /\ [webhooks'[i] EXCEPT !.processed = FALSE,
                                        !.processed_at = -1,
                                        !.result = NoResult] = webhooks[i]]_vars

\* Two records were processed in different passes at different times.
C24_Witness ==
    /\ Len(webhooks) >= 3
    /\ webhooks[1].processed
    /\ webhooks[2].processed
    /\ webhooks[1].processed_at < webhooks[2].processed_at
    /\ webhooks[1].result.status = "processed"
    /\ ret.op = "_process_webhook_queue"
    /\ ret.item = 2

\* C26: when a handler raises while the dispatcher handles a record, the
\* record is still marked processed and its result is {status: "error",
\* message: <exception message>}: a record whose handler failed is never
\* left with processed = false once it was taken from the queue.
C26_FailedRecordMarked ==
    \A i \in DOMAIN webhooks :
        (HandlerRaises(i) /\ i \notin Range(processing_queue)) =>
            /\ webhooks[i].processed
            /\ webhooks[i].processed_at >= 0
            /\ webhooks[i].result.status = "error"
            /\ webhooks[i].result.message = _handle_system_alert(webhooks[i]).message

\* The second record made its handler raise, the first did not; both were
\* taken.
C26_Witness ==
    /\ Len(webhooks) = 2
    /\ processing_queue = <<>>
    /\ ~HandlerRaises(1)
    /\ webhooks[1].result.status = "processed"
    /\ HandlerRaises(2)
    /\ webhooks[2].processed
    /\ webhooks[2].result.status = "error"

\* C30: as long as no record has been evicted from webhook_history,
\* total_webhooks - processed_webhooks is pending_webhooks (the queue size)
\* plus the number of records the dispatcher is handling (0 or 1), and
\* processed_webhooks <= total_webhooks.
C30_StatsConsistent ==
    Len(webhooks) <= WebhookHandler_max_history =>
        LET stats == get_webhook_stats
        IN  /\ stats.total_webhooks = Len(webhooks)
            /\ stats.processed_webhooks <= stats.total_webhooks
            /\ \E handling \in {0, 1} :
                   stats.total_webhooks - stats.processed_webhooks
                       = stats.pending_webhooks + handling

\* One record processed, one waiting, the consumer asleep between them.
C30_Witness ==
    /\ Len(webhooks) = WebhookHandler_max_history
    /\ get_webhook_stats.processed_webhooks = 1
    /\ get_webhook_stats.pending_webhooks = WebhookHandler_max_history - 1
    /\ consumers = <<"sleep">>

\* C28: after any sequence of check_rate_limit calls each key's window holds
\* at most rate_limit_requests timestamps, and a call rejected with 429 adds
\* no timestamp: the window it leaves holds only timestamps that were there
\* before, so the oldest one, which decides when the key is free again, is
\* not made younger.
C28_WindowBounded ==
    [][/\ \A k \in DOMAIN request_counts' :
              Len(request_counts'[k]) <= rate_limit_requests
       /\ (rl_log' # rl_log /\ ~rl_log'[Len(rl_log')].ok) =>
              LET k == rl_log'[Len(rl_log')].key
              IN  /\ k \in DOMAIN request_counts
                  /\ Len(request_counts'[k]) <= Len(request_counts[k])
                  /\ Range(request_counts'[k]) \subseteq Range(request_counts[k])
                  /\ \A j \in DOMAIN request_counts \ {k} :
                         request_counts'[j] = request_counts[j]]_vars

\* A call was rejected at a later instant than the first recorded one, with
\* the window full.
C28_Witness ==
    /\ ret.op = "check_rate_limit"
    /\ ret.result.raised
    /\ Len(request_counts[ret.api_key]) = rate_limit_requests
    /\ request_counts[ret.api_key][1] < time_time
    /\ rl_log # <<>>
    /\ ~rl_log[Len(rl_log)].ok

\* C29: a request stopped by key validation (401) or by the IP allow-list
\* (403) leaves request_counts unchanged, and request_counts only ever holds
\* entries for callers that passed key validation: each entry is under the
\* name of a configured key or under a token that validates.
C29_RejectedConsumesNoBudget ==
    [][/\ (/\ clock' = clock
           /\ ret'.op \in {"webhook_endpoint", "secure_endpoint"}
           /\ ret'.gate \in {401, 403}) => request_counts' = request_counts
       /\ \A k \in DOMAIN request_counts' :
              k \in DOMAIN api_keys \/ ~validate_api_key(k).raised]_vars

\* A caller with a valid key that has used part of its budget is stopped by
\* the allow-list.
C29_Witness ==
    /\ ret.op = "secure_endpoint"
    /\ ret.gate = 403
    /\ ~validate_api_key(ret.token).raised
    /\ ret.token \in DOMAIN request_counts
    /\ Len(request_counts[ret.token]) = 1
    /\ validate_api_key(ret.token).value \in DOMAIN request_counts

\* C25: when several trigger requests for the same agent are in progress
\* at once, no dispatch is ever found between its running transition and
\* its counter update and history append, and for every agent
\* tasks_completed + tasks_failed is exactly the number of dispatches whose
\* execute was called and returned, as is the number of history appends.
C25_NoLostUpdates ==
    /\ \A i \in DOMAIN requests : requests[i].pc # "executing"
    /\ \A a \in DOMAIN agents :
           /\ agents[a].status # "running"
           /\ agents[a].tasks_completed + agents[a].tasks_failed = dispatched[a]
           /\ dispatched[a] =
                  Cardinality({i \in DOMAIN requests :
                                  requests[i].agent_name = a /\ requests[i].invoked})
    /\ hist_appended =
           Cardinality({i \in DOMAIN requests : requests[i].invoked})

\* Two requests for the same agent overlapped (the one that arrived second
\* finished first, a third is still waiting for its body), and both
\* dispatches executed and returned.
C25_Witness ==
    /\ Len(requests) = 3
    /\ \A i \in 1..3 : requests[i].agent_name = "file_organization"
    /\ requests[1].invoked
    /\ requests[2].invoked
    /\ requests[2].finished < requests[1].finished
    /\ requests[3].pc = "body"
    /\ agents["file_organization"].tasks_completed = 1
    /\ agents["file_organization"].tasks_failed = 1

\* C20: at most one consumer loop exists at any time, however many times
\* start_background_processing is called: the queue is drained by a single
\* task.
C20_SingleConsumer ==
    /\ Len(consumers) <= 1
    /\ (_background_task = "None") <=> (consumers = <<>>)

\* start_background_processing was called again while the task exists and
\* is in the middle of its work.
C20_Witness ==
    /\ ret.op = "start_background_processing"
    /\ ret.pre_task = "task"
    /\ ret.event_loop = "loop"
    /\ Len(consumers) = 1
    /\ consumers[1] = "sleep"
    /\ processing_queue # <<>>

(***************************************************************************)
(* Properties of AgentManager (checked under SpecAgent)                    *)
(***************************************************************************)

\* C6: execute_agent on a registered agent whose enabled flag is false
\* returns the "is disabled" failure and does not call the agent's execute,
\* for every parameter bag.
C6_DisabledNeverExecutes ==
    (ret.op = "execute_agent" /\ ret.registered /\ ~ret.pre.enabled) =>
        /\ ~ret.raised
        /\ ~ret.invoked
        /\ ret.execute.kind = "not called"
        /\ ~ret.result.success
        /\ ret.result.error = "Agent " \o ret.agent_name \o " is disabled"

C6_Witness ==
    /\ ret.op = "execute_agent"
    /\ ret.registered
    /\ ~ret.pre.enabled
    /\ ret.parameters # "{}"
    /\ ~ret.result.success

\* C7: when the agent's execute raises, execute_agent returns
\* {success: false, error: <message>}, tasks_failed has grown by exactly 1
\* and tasks_completed is unchanged.
C7_RaiseCountsAsFailed ==
    (ret.op = "execute_agent" /\ ret.execute.kind = "raise") =>
        /\ ~ret.raised
        /\ ~ret.result.success
        /\ ret.result.error = ret.execute.msg
        /\ agents[ret.agent_name].tasks_failed = ret.pre.tasks_failed + 1
        /\ agents[ret.agent_name].tasks_completed = ret.pre.tasks_completed

\* The call passed the not-found, disabled and parameter checks.
PassedChecks ==
    /\ ret.op = "execute_agent"
    /\ ret.registered
    /\ ret.pre.enabled
    /\ ret.validate = "true"

\* C8: every execute_agent call that passes the not-found, disabled and
\* parameter checks appends exactly one entry to the execution history,
\* also when the agent's execute raises.
C8_OneHistoryEntryPerDispatch ==
    PassedChecks => hist_appended = ret.pre_appended + 1

\* The entries of the execution history that name the agent
EntriesOf(agent_name) ==
    {i \in 1..Len(agent_status_history) :
        agent_status_history[i].agent_name = agent_name}

\* C9: as long as the execution history has evicted nothing, for every
\* registered agent tasks_completed + tasks_failed is the number of history
\* entries that name it.
C9_CountersMatchHistory ==
    hist_appended <= AgentManager_max_history =>
        \A a \in DOMAIN agents :
            agents[a].tasks_completed + agents[a].tasks_failed
                = Cardinality(EntriesOf(a))

\* A dispatch has raised after others have been counted and recorded.
C9_Witness ==
    /\ ret.op = "execute_agent"
    /\ ret.execute.kind = "raise"
    /\ hist_appended = AgentManager_max_history
    /\ \E a \in DOMAIN agents :
           agents[a].tasks_completed > 0 /\ agents[a].tasks_failed > 0

(***************************************************************************)
(* Properties of the HTTP endpoints (checked under SpecApi, SpecApiFair    *)
(* and SpecApiAgents)                                                      *)
(***************************************************************************)

\* C15: every webhook accepted through the HTTP webhook endpoints is
\* eventually taken from the queue and marked processed, with processed_at
\* and a non-error result on its stored record, when the event loop
\* schedules its tasks fairly.
C15_AcceptedEventuallyProcessed ==
    \A i \in 1..MaxWebhooks :
        (i \in DOMAIN webhooks)
        ~> (/\ i \in DOMAIN webhooks
            /\ webhooks[i].processed
            /\ webhooks[i].processed_at >= 0
            /\ webhooks[i].result.status \notin {"", "error"}
            /\ i \notin Range(processing_queue))

\* C16: on the webhook endpoints a failure of the SecurityManager reaches
\* the HTTP caller as its own status code (401 unknown key, 403 address
\* outside the allow-list, 429 over the rate limit) and no webhook is
\* accepted.
C16_SecurityStatusSurfaced ==
    (ret.op = "webhook_endpoint" /\ ret.gate # 0) =>
        /\ ret.status_code = ret.gate
        /\ ~ret.accepted

\* The request passed the security checks and names no registered agent.
UnknownAgentRequest ==
    /\ ret.op \in {"enable_agent_endpoint", "disable_agent_endpoint"}
    /\ ret.gate = 0
    /\ ret.agent_name \notin DOMAIN ret.pre_agents

\* C17 as stated: enabling or disabling an unknown agent name answers 404
\* and leaves every registered agent's enabled flag and status unchanged.
C17_UnknownAgent404 ==
    UnknownAgentRequest =>
        /\ ret.status_code = 404
        /\ agents = ret.pre_agents

\* C17 amended: enabling or disabling an unknown agent name answers 200
\* with the body {success: false, error: "Agent <name> not found"} and
\* leaves every registered agent's enabled flag and status unchanged.
C17_UnknownAgentBody ==
    UnknownAgentRequest =>
        /\ ret.status_code = 200
        /\ ~ret.body.success
        /\ ret.body.error = "Agent " \o ret.agent_name \o " not found"
        /\ agents = ret.pre_agents

\* An unknown name is disabled over HTTP while the registered agent is
\* disabled: it stays so.
C17_Witness ==
    /\ UnknownAgentRequest
    /\ ret.op = "disable_agent_endpoint"
    /\ ret.status_code = 200
    /\ ~agents["file_organization"].enabled
    /\ agents["file_organization"].status = "disabled"

\* The dispatch was rejected before execution: unknown name, disabled
\* agent, or parameters the validator refused.
RejectedBeforeExecution(r) ==
    /\ r.op = "execute_agent"
    /\ (~r.registered \/ ~r.pre.enabled \/ r.validate = "false")

\* C21: a dispatch rejected before execution (unknown agent name, disabled
\* agent, parameters rejected by the validator) has no side effect: every
\* agent's status, enabled flag, tasks_completed and tasks_failed and the
\* execution history are unchanged, and execute is not invoked.
C21_RejectedDispatchNoEffect ==
    [][RejectedBeforeExecution(ret') =>
          /\ agents' = agents
          /\ agent_status_history' = agent_status_history
          /\ hist_appended' = hist_appended
          /\ ~ret'.invoked
          /\ ret'.execute.kind = "not called"
          /\ ~ret'.result.success]_vars

\* The validator refused the parameters of an agent that has completed a
\* task and failed another: its fields and the history are as they were.
C21_Witness ==
    /\ RejectedBeforeExecution(ret)
    /\ ret.validate = "false"
    /\ agents[ret.agent_name] = ret.pre
    /\ ret.pre.tasks_completed > 0
    /\ ret.pre.tasks_failed > 0
    /\ Len(agent_status_history) = hist_appended

\* C22: for a registered agent in any status, disable_agent sets enabled
\* false and status disabled, and enable_agent sets enabled true and status
\* idle, so that the agent is dispatched again; neither call changes
\* tasks_completed, tasks_failed or the execution history.
C22_DisableEnableRoundTrip ==
    [][(ret'.op \in {"disable_agent", "enable_agent"}
            /\ ret'.agent_name \in DOMAIN agents) =>
          LET before == agents[ret'.agent_name]
              after  == agents'[ret'.agent_name]
          IN  /\ ret'.result.success
              /\ ret'.op = "disable_agent" =>
                    (~after.enabled /\ after.status = "disabled")
              /\ ret'.op = "enable_agent" =>
                    (after.enabled /\ after.status = "idle" /\ ~is_disabled(after))
              /\ after.tasks_completed = before.tasks_completed
              /\ after.tasks_failed = before.tasks_failed
              /\ agent_status_history' = agent_status_history
              /\ hist_appended' = hist_appended]_vars

\* An agent that completed a task and failed another was disabled and is
\* enabled again.
C22_Witness ==
    /\ ret.op = "enable_agent"
    /\ ret.agent_name \in DOMAIN agents
    /\ ~ret.pre.enabled
    /\ ret.pre.status = "disabled"
    /\ agents[ret.agent_name].enabled
    /\ agents[ret.agent_name].status = "idle"
    /\ agents[ret.agent_name].tasks_completed > 0
    /\ agents[ret.agent_name].tasks_failed > 0

\* The call went past the not-found, disabled and parameter checks, or its
\* validator raised.
EnteredDispatch ==
    /\ ret.op = "execute_agent"
    /\ ret.registered
    /\ ret.pre.enabled
    /\ ret.validate # "false"

\* C23: no agent is ever left in status running: whenever an execute_agent
\* call that went past its checks has returned, normally or after the agent
\* raised, the agent's status is completed or failed; outside execute_agent
\* nothing sets running.
C23_NeverLeftRunning ==
    /\ \A a \in DOMAIN agents : agents[a].status # "running"
    /\ EnteredDispatch =>
          agents[ret.agent_name].status \in {"completed", "failed"}
    /\ (ret.op = "execute_agent" /\ ret.invoked /\ ret.execute.kind = "return") =>
          agents[ret.agent_name].status =
              (IF ret.execute.success THEN "completed" ELSE "failed")

\* The agent raised in a dispatch that followed a completed one.
C23_Witness ==
    /\ EnteredDispatch
    /\ ret.execute.kind = "raise"
    /\ ret.pre.status = "completed"
    /\ agents[ret.agent_name].status = "failed"

\* C27: in every state reachable through execute_agent, enable_agent and
\* disable_agent, an agent's status is disabled if and only if its enabled
\* flag is false.
C27_DisabledIffNotEnabled ==
    \A a \in DOMAIN agents :
        (agents[a].status = "disabled") <=> ~agents[a].enabled

\* A disabled agent that has run tasks before was asked to run another.
C27_Witness ==
    /\ ret.op = "execute_agent"
    /\ ret.registered
    /\ ~agents[ret.agent_name].enabled
    /\ agents[ret.agent_name].status = "disabled"
    /\ agents[ret.agent_name].tasks_completed > 0
    /\ agents[ret.agent_name].tasks_failed > 0

\* C11: for every execute_agent call whose agent execute returns a result:
\* when result.success is true tasks_completed grows by 1, tasks_failed is
\* unchanged, the status becomes completed and the returned payload carries
\* agent_name and agent_status "completed"; otherwise tasks_failed grows by
\* 1, tasks_completed is unchanged and the status becomes failed.  Exactly
\* one of the two counters changes.
C11_ReturnedResultCounted ==
    (ret.op = "execute_agent" /\ ret.execute.kind = "return") =>
        LET agent == agents[ret.agent_name]
        IN  /\ ret.execute.success =>
                  /\ agent.tasks_completed = ret.pre.tasks_completed + 1
                  /\ agent.tasks_failed = ret.pre.tasks_failed
                  /\ agent.status = "completed"
                  /\ ret.result.success
                  /\ ret.result.agent_name = ret.agent_name
                  /\ ret.result.agent_status = "completed"
            /\ ~ret.execute.success =>
                  /\ agent.tasks_failed = ret.pre.tasks_failed + 1
                  /\ agent.tasks_completed = ret.pre.tasks_completed
                  /\ agent.status = "failed"
            /\ (agent.tasks_completed # ret.pre.tasks_completed)
                  # (agent.tasks_failed # ret.pre.tasks_failed)

\* A returned failure follows a returned success of the same agent.
C11_Witness ==
    /\ ret.op = "execute_agent"
    /\ ret.execute.kind = "return"
    /\ ~ret.execute.success
    /\ ret.pre.tasks_completed > 0
    /\ agents[ret.agent_name].tasks_failed = ret.pre.tasks_failed + 1
    /\ agents[ret.agent_name].status = "failed"

\* C10: execute_agent never lets an exception out: when validate_parameters
\* or execute raises, the call returns a result with success false and an
\* error message.
C10_NeverPropagates ==
    ret.op = "execute_agent" =>
        /\ ~ret.raised
        /\ (ret.validate = "raise" \/ ret.execute.kind = "raise") =>
               (~ret.result.success /\ ret.result.error # "")

C10_Witness ==
    /\ ret.op = "execute_agent"
    /\ ret.validate = "raise"
    /\ ~ret.raised
    /\ ~ret.result.success
    /\ agents[ret.agent_name].status = "failed"

====
